---- MODULE Spec2Model ----
(***************************************************************************)
(* The tokenizer of vmel: the token store (TokenMgr) and the scanning loop *)
(* (build_tokens) of src/src/tokenizer.c.                                  *)
(*                                                                         *)
(* A Token* is a record [id, type, value]: id stands for the address       *)
(* malloc returned, so two tokens with the same text are still different   *)
(* pointers.  A Token** into toks (curr_tok) is <<i>> for &toks[i] and     *)
(* <<>> for NULL.  Characters are one-character strings, a C string is a   *)
(* sequence of them.                                                       *)
(***************************************************************************)
EXTENDS Integers, Sequences, FiniteSets, TLC

VARIABLES tok_mgr, op, ret, rc, walk, pc, buff, scan

vars == <<tok_mgr, op, ret, rc, walk, pc, buff, scan>>

\* ------------------------------------------------------------- bounds
\* Appends explored once the toks array is full.
MaxPastCap == 1
\* Longest buffer handed to build_tokens.
MaxLen == 3
\* Longest string handed to is_valid_keyword on its own.
MaxWordLen == 4
\* How far past the size of store the long lexical units reach.
MaxOver == 1
\* Longest buffer of the clear-and-rescan runs.
MaxRescanLen == 2
\* Bytes read past the buffer's terminator before a delimiter turns up.
MaxGarbage == 1

\* ------------------------------------------------------ the token store
\* Number of slots of TokenMgr.toks, the inline array build_tokens fills.
TOKS_CAP == 4

NULL == [id |-> 0, type |-> "NULL", value |-> <<>>]
\* Two indeterminate non-null pointers (they may or may not compare equal).
WILD == [id |-> -1, type |-> "WILD", value |-> <<>>]
WILD2 == [id |-> -2, type |-> "WILD", value |-> <<>>]
\* A slot malloc handed out and nobody wrote.
UNINIT == [id |-> -3, type |-> "UNINIT", value |-> <<>>]
\* The call did not return: the process took a memory fault.
FAULT == [id |-> -4, type |-> "FAULT", value |-> <<>>]

\* A slot whose token was handed to free.
FREED == [id |-> -5, type |-> "FREED", value |-> <<>>]

Indeterminate == {NULL, WILD, WILD2}

NULLCUR == <<>>

InArr(i) == i \in 0..(TOKS_CAP - 1)

IsToken(t) == t.id > 0

\* What a read of toks[i] can yield: the slot, or anything when the slot
\* was never written or lies outside the array.
Mem(m, i) ==
  IF InArr(i) /\ m.toks[i] # UNINIT THEN {m.toks[i]} ELSE Indeterminate

\* The live tokens toks[0..tok_ctr-1], as type/value pairs.
Tokens(m) ==
  [k \in 1..m.tok_ctr |->
     IF InArr(k - 1)
     THEN [type |-> m.toks[k - 1].type, value |-> m.toks[k - 1].value]
     ELSE [type |-> "LOST", value |-> <<>>]]

TokenMgr_new ==
  [toks |-> [i \in 0..(TOKS_CAP - 1) |-> UNINIT],
   tok_ctr |-> 0,
   curr_tok |-> NULLCUR]

\* malloc: an address no token still referenced from toks has.  Tokens that
\* were overwritten are never freed, so no address is reused while referenced;
\* the smallest unused id stands for it.
Malloc(m) ==
  CHOOSE k \in 1..(TOKS_CAP + 1) :
    /\ \A i \in 0..(TOKS_CAP - 1) : m.toks[i].id # k
    /\ \A j \in 1..(k - 1) : \E i \in 0..(TOKS_CAP - 1) : m.toks[i].id = j

\* toks[tok_ctr] = tmp; tok_ctr += 1.  No bound is checked: with the array
\* full the store lands past it and toks itself is left as it was.
TokenMgr_add_token(m, tok_type, tok_val) ==
  LET tmp == [id |-> Malloc(m), type |-> tok_type, value |-> tok_val]
  IN [m EXCEPT !.toks = IF InArr(m.tok_ctr)
                        THEN [m.toks EXCEPT ![m.tok_ctr] = tmp]
                        ELSE m.toks,
               !.tok_ctr = m.tok_ctr + 1]

\* TokenMgr_next_token comparing against toks[tok_ctr], one past the last
\* token: the walk no longer stops at the last token.
TokenMgr_next_token_PastLast(m) ==
  IF m.curr_tok = NULLCUR
  THEN {[mgr |-> [m EXCEPT !.curr_tok = <<0>>], ret |-> t] : t \in Mem(m, 0)}
  ELSE LET c == m.curr_tok[1]
           last == m.tok_ctr
       IN UNION {
            UNION {
              IF cur = lst
              THEN {[mgr |-> m, ret |-> NULL]}
              ELSE {[mgr |-> [m EXCEPT !.curr_tok = <<c + 1>>], ret |-> t] :
                      t \in IF c + 1 = last THEN {lst} ELSE Mem(m, c + 1)}
              : lst \in IF last = c THEN {cur} ELSE Mem(m, last)}
            : cur \in Mem(m, c)}

\* The outcomes of TokenMgr_next_token, each [mgr, ret].
TokenMgr_next_token(m) ==
  IF m.curr_tok = NULLCUR
  THEN {[mgr |-> [m EXCEPT !.curr_tok = <<0>>], ret |-> t] : t \in Mem(m, 0)}
  ELSE LET c == m.curr_tok[1]
           last == m.tok_ctr - 1
       IN UNION {
            UNION {
              IF cur = lst
              THEN {[mgr |-> m, ret |-> NULL]}
              ELSE {[mgr |-> [m EXCEPT !.curr_tok = <<c + 1>>], ret |-> t] :
                      t \in IF c + 1 = last THEN {lst} ELSE Mem(m, c + 1)}
              : lst \in IF last = c THEN {cur} ELSE Mem(m, last)}
            : cur \in Mem(m, c)}

\* The outcomes of TokenMgr_prev_token, each [mgr, ret].
TokenMgr_prev_token(m) ==
  IF m.curr_tok = NULLCUR
  THEN {[mgr |-> [m EXCEPT !.curr_tok = <<m.tok_ctr - 1>>], ret |-> t] :
          t \in Mem(m, m.tok_ctr - 1)}
  ELSE LET c == m.curr_tok[1]
       IN UNION {
            UNION {
              IF cur = fst
              THEN {[mgr |-> m, ret |-> NULL]}
              ELSE {[mgr |-> [m EXCEPT !.curr_tok = <<c - 1>>], ret |-> t] :
                      t \in IF c - 1 = 0 THEN {fst} ELSE Mem(m, c - 1)}
              : fst \in IF c = 0 THEN {cur} ELSE Mem(m, 0)}
            : cur \in Mem(m, c)}

TokenMgr_reset_token(m) == [m EXCEPT !.curr_tok = NULLCUR]

\* TokenMgr_clear_tokens without tok_ctr = 0.
TokenMgr_clear_tokens_KeepCount(m) == [m EXCEPT !.curr_tok = NULLCUR]

TokenMgr_clear_tokens(m) == [m EXCEPT !.curr_tok = NULLCUR, !.tok_ctr = 0]

\* return *tok_mgr->curr_tok: with curr_tok NULL this reads through a null
\* pointer, which faults or yields anything.
TokenMgr_current_token(m) ==
  IF m.curr_tok = NULLCUR
  THEN {FAULT} \cup Indeterminate
  ELSE Mem(m, m.curr_tok[1])

\* The outcomes of TokenMgr_free, each [mgr, fault]: toks[0..tok_ctr-1] are
\* freed, whatever lies in toks from tok_ctr on is not; then curr_tok = NULL
\* and the store itself is freed (mgr is the memory as the call leaves it).
\* With tok_ctr past the array the loop frees what it reads behind the
\* array, which faults or goes unnoticed.
TokenMgr_free(m) ==
  LET after == [m EXCEPT !.toks = [i \in 0..(TOKS_CAP - 1) |->
                                     IF i < m.tok_ctr THEN FREED
                                     ELSE m.toks[i]],
                         !.curr_tok = NULLCUR]
  IN {[mgr |-> after, fault |-> FALSE]}
       \cup {[mgr |-> m, fault |-> TRUE] : k \in {m.tok_ctr} \ (0..TOKS_CAP)}

get_first_token(m) == IF m.tok_ctr < 1 THEN {NULL} ELSE Mem(m, 0)

get_last_token(m) == IF m.tok_ctr < 1 THEN {NULL} ELSE Mem(m, m.tok_ctr - 1)

\* ------------------------------------------------- the store's callers
\* The token the store's callers append (a Token* is told apart by its
\* address, not by its text).
AddKinds ==
  {[type |-> "INTEGER", value |-> <<"1">>]}

\* walk is the callers' history: n counts the successive next (or prev)
\* calls made since the last TokenMgr_reset_token with nothing appended or
\* cleared in between; cleared says that TokenMgr_clear_tokens was called and
\* nothing was appended since.
NoWalk(cl) == [dir |-> "none", n |-> 0, cleared |-> cl]

WalkOn(d) ==
  IF walk.dir \in {"fresh", d} /\ walk.n <= tok_mgr.tok_ctr
  THEN [dir |-> d, n |-> walk.n + 1, cleared |-> walk.cleared]
  ELSE NoWalk(walk.cleared)

Running == pc \in {"idle", "done"}

CallNew ==
  /\ Running
  /\ tok_mgr' = TokenMgr_new
  /\ op' = "new" /\ ret' = NULL /\ rc' = 0 /\ walk' = NoWalk(FALSE)
  /\ UNCHANGED <<pc, buff, scan>>

CallAdd ==
  /\ Running
  /\ tok_mgr.tok_ctr < TOKS_CAP + MaxPastCap
  /\ \E k \in AddKinds :
       tok_mgr' = TokenMgr_add_token(tok_mgr, k.type, k.value)
  /\ op' = "add" /\ ret' = NULL /\ rc' = 0 /\ walk' = NoWalk(FALSE)
  /\ UNCHANGED <<pc, buff, scan>>

CallNext ==
  /\ Running
  /\ \E o \in TokenMgr_next_token(tok_mgr) :
       /\ o.mgr.curr_tok[1] <= TOKS_CAP + MaxPastCap
       /\ tok_mgr' = o.mgr
       /\ ret' = o.ret
  /\ op' = "next" /\ rc' = 0 /\ walk' = WalkOn("next")
  /\ UNCHANGED <<pc, buff, scan>>

CallPrev ==
  /\ Running
  /\ \E o \in TokenMgr_prev_token(tok_mgr) :
       /\ o.mgr.curr_tok[1] >= 0 - (1 + MaxPastCap)
       /\ tok_mgr' = o.mgr
       /\ ret' = o.ret
  /\ op' = "prev" /\ rc' = 0 /\ walk' = WalkOn("prev")
  /\ UNCHANGED <<pc, buff, scan>>

CallReset ==
  /\ Running
  /\ tok_mgr' = TokenMgr_reset_token(tok_mgr)
  /\ op' = "reset" /\ ret' = NULL /\ rc' = 0
  /\ walk' = [dir |-> "fresh", n |-> 0, cleared |-> walk.cleared]
  /\ UNCHANGED <<pc, buff, scan>>

CallClear ==
  /\ Running
  /\ tok_mgr' = TokenMgr_clear_tokens(tok_mgr)
  /\ op' = "clear" /\ ret' = NULL /\ rc' = 0 /\ walk' = NoWalk(TRUE)
  /\ UNCHANGED <<pc, buff, scan>>

CallCurrent ==
  /\ Running
  /\ \E t \in TokenMgr_current_token(tok_mgr) :
       /\ ret' = t
       /\ pc' = IF t = FAULT THEN "fault" ELSE pc
  /\ op' = "current" /\ rc' = 0
  /\ UNCHANGED <<tok_mgr, walk, buff, scan>>

CallFirst ==
  /\ Running
  /\ \E t \in get_first_token(tok_mgr) : ret' = t
  /\ op' = "first" /\ rc' = 0
  /\ UNCHANGED <<tok_mgr, walk, pc, buff, scan>>

CallLast ==
  /\ Running
  /\ \E t \in get_last_token(tok_mgr) : ret' = t
  /\ op' = "last" /\ rc' = 0
  /\ UNCHANGED <<tok_mgr, walk, pc, buff, scan>>

CallFree ==
  /\ Running
  /\ \E o \in TokenMgr_free(tok_mgr) :
       /\ tok_mgr' = o.mgr
       /\ pc' = IF o.fault THEN "fault" ELSE "freed"
  /\ op' = "free" /\ ret' = NULL /\ rc' = 0 /\ walk' = NoWalk(FALSE)
  /\ UNCHANGED <<buff, scan>>


\* --------------------------------------------------------- characters
COMMENT == "#"
NEWLINE == "\n"
BANG == "!"
EQUAL == "="
LPAREN == "("
RPAREN == ")"
LESSTHAN == "<"
GREATERTHAN == ">"
PLUS == "+"
MINUS == "-"
ASTERISK == "*"
FSLASH == "/"
DQUOTE == "\""
VAR == "$"
LBRACE == "{"
RBRACE == "}"
\* The terminator '\0'.
NUL == "NUL"
\* A byte past the terminator that is none of the delimiters.
GARBAGE == "GARBAGE"

Letters ==
  {"a", "b", "c", "d", "e", "f", "g", "h", "i", "j", "k", "l", "m",
   "n", "o", "p", "q", "r", "s", "t", "u", "v", "w", "x", "y", "z",
   "A", "B", "C", "D", "E", "F", "G", "H", "I", "J", "K", "L", "M",
   "N", "O", "P", "Q", "R", "S", "T", "U", "V", "W", "X", "Y", "Z"}

Digits == {"0", "1", "2", "3", "4", "5", "6", "7", "8", "9"}

isalpha(c) == c \in Letters

isdigit(c) == c \in Digits

isspace(c) == c \in {" ", "\t", "\n", "\r", "\f"}

is_valid_identifier(c) == isalpha(c) \/ isdigit(c) \/ c = "_"

IdentChars == {c \in Letters \cup Digits \cup {"_"} : is_valid_identifier(c)}

\* buff[i], i counted from 0 as in the code.
Ch(b, i) ==
  IF i < Len(b) THEN b[i + 1] ELSE IF i = Len(b) THEN NUL ELSE GARBAGE

\* buff[i..j-1]
Slice(b, i, j) == [k \in 1..(j - i) |-> b[i + k]]

\* Where a loop  while (c is in S) c = buff[++bidx];  entered at index i
\* stops (the terminator is in no such S).
RunWhile(b, i, S) ==
  CHOOSE j \in i..Len(b) :
    /\ Ch(b, j) \notin S
    /\ \A k \in i..(j - 1) : Ch(b, k) \in S

\* Where a loop  while (c is not in S) c = buff[++bidx];  entered at index i
\* stops (the terminator is in every such S).
RunUntil(b, i, S) ==
  CHOOSE j \in i..Len(b) :
    /\ Ch(b, j) \in S
    /\ \A k \in i..(j - 1) : Ch(b, k) \notin S

\* ------------------------------------------------------------ keywords
KWORDS_SIZE == 5

\* A slot of R_Keywords the initializer leaves out: a null pointer.
NULLSTR == <<NUL>>

R_Keywords ==
  <<<<"p", "r", "i", "n", "t">>, <<"i", "f">>, <<"e", "l", "s", "e">>,
    NULLSTR, NULLSTR>>

\* The outcomes of the loop of is_valid_keyword from index x on, each
\* [ret, fault]: strcmp with a null pointer faults, or reads whatever lies
\* at address 0 and finds it different from str.
RECURSIVE KeywordScan(_, _)
KeywordScan(x, str) ==
  IF x >= KWORDS_SIZE
  THEN {[ret |-> 0, fault |-> FALSE]}
  ELSE IF R_Keywords[x + 1] = NULLSTR
       THEN {[ret |-> 0, fault |-> TRUE]} \cup KeywordScan(x + 1, str)
       ELSE IF R_Keywords[x + 1] = str
            THEN {[ret |-> 1, fault |-> FALSE]}
            ELSE KeywordScan(x + 1, str)

\* if (str == NULL) return ret;  then the loop over the KWORDS_SIZE slots.
is_valid_keyword(str) ==
  IF str = NULLSTR
  THEN {[ret |-> 0, fault |-> FALSE]}
  ELSE KeywordScan(0, str)

\* --------------------------------------------------------- build_tokens
STORE_SIZE == 100

\* One outcome of an iteration of the scanning loop: the locals after it,
\* the token handed to TokenMgr_add_token (if any), or a memory fault.
Out(s, e) == {[scan |-> s, emit |-> e, fault |-> FALSE]}

Faulted(s) == [scan |-> s, emit |-> <<>>, fault |-> TRUE]

Tok(ty, v) == <<[type |-> ty, value |-> v]>>

Skip(s, n) == [s EXCEPT !.bidx = s.bidx + n]

EndOfLine == {NEWLINE, NUL}

\* ScanComment stepping over the comment-start character only.
ScanComment_OneChar(b, s) == Out(Skip(s, 1), <<>>)

ScanComment(b, s) ==
  Out([s EXCEPT !.bidx = RunUntil(b, s.bidx, EndOfLine)], <<>>)

\* ScanNewline without lineno++.
ScanNewline_NoCount(b, s) == Out([s EXCEPT !.bidx = s.bidx + 1], <<>>)

ScanNewline(b, s) ==
  Out([s EXCEPT !.lineno = s.lineno + 1, !.bidx = s.bidx + 1], <<>>)

ScanBang(b, s) ==
  IF Ch(b, s.bidx + 1) = EQUAL
  THEN Out(Skip(s, 2), Tok("OPERATOR", <<"NOTEQUALTO">>))
  ELSE Out(Skip(s, 1), Tok("OPERATOR", <<"NOT">>))

ScanLessThan(b, s) ==
  IF Ch(b, s.bidx + 1) = EQUAL
  THEN Out(Skip(s, 2), Tok("OPERATOR", <<"LTEQTO">>))
  ELSE Out(Skip(s, 1), Tok("OPERATOR", <<"LESSTHAN">>))

\* ScanGreaterThan without the default case's bidx--.
ScanGreaterThan_NoBackup(b, s) ==
  LET n == Ch(b, s.bidx + 1)
  IN IF n = EQUAL
     THEN Out(Skip(s, 2), Tok("OPERATOR", <<"GTEQTO">>))
     ELSE IF n = LESSTHAN
          THEN Out(Skip(s, 2), Tok("OPERATOR", <<"BETWEEN">>))
          ELSE Out(Skip(s, 2), Tok("OPERATOR", <<"GREATERTHAN">>))

\* switch (buff[++bidx]) ... default: bidx--; ... then bidx++
ScanGreaterThan(b, s) ==
  LET n == Ch(b, s.bidx + 1)
  IN IF n = EQUAL
     THEN Out(Skip(s, 2), Tok("OPERATOR", <<"GTEQTO">>))
     ELSE IF n = LESSTHAN
          THEN Out(Skip(s, 2), Tok("OPERATOR", <<"BETWEEN">>))
          ELSE Out(Skip(s, 1), Tok("OPERATOR", <<"GREATERTHAN">>))

ScanEqual(b, s) ==
  IF Ch(b, s.bidx + 1) = EQUAL
  THEN Out(Skip(s, 2), Tok("OPERATOR", <<"EQUALTO">>))
  ELSE Out(Skip(s, 1), Tok("OPERATOR", <<"EQUAL">>))

EndOfString == {DQUOTE, NUL, NEWLINE}

\* ScanString without the bidx++ that steps over the closing quote.
ScanString_NoSkip(b, s) ==
  LET j == RunUntil(b, s.bidx + 1, EndOfString)
      txt == Slice(b, s.bidx + 1, j)
      n == s.stctr + (j - (s.bidx + 1))
  IN IF Ch(b, j) # DQUOTE
     THEN Out([s EXCEPT !.bidx = j, !.stctr = n, !.store = txt,
                        !.error = 1], <<>>)
     ELSE Out([s EXCEPT !.bidx = j, !.stctr = 0, !.store = txt],
              Tok("STRING", txt))

ScanString(b, s) ==
  LET j == RunUntil(b, s.bidx + 1, EndOfString)
      txt == Slice(b, s.bidx + 1, j)
      n == s.stctr + (j - (s.bidx + 1))
  IN IF Ch(b, j) # DQUOTE
     THEN Out([s EXCEPT !.bidx = j, !.stctr = n, !.store = txt,
                        !.error = 1], <<>>)
     ELSE Out([s EXCEPT !.bidx = j + 1, !.stctr = 0, !.store = txt],
              Tok("STRING", txt))

\* ScanVar looking the run up in the keyword table, as the bare-word branch
\* does.
ScanVar_AsKeyword(b, s) ==
  LET j == RunWhile(b, s.bidx + 1, IdentChars)
      txt == Slice(b, s.bidx + 1, j)
  IN Out([s EXCEPT !.bidx = j, !.stctr = 0, !.store = txt],
         IF \E x \in 1..KWORDS_SIZE : R_Keywords[x] = txt
         THEN Tok("KEYWORD", txt)
         ELSE Tok("IDENTIFIER", txt))

ScanVar(b, s) ==
  LET j == RunWhile(b, s.bidx + 1, IdentChars)
      txt == Slice(b, s.bidx + 1, j)
  IN Out([s EXCEPT !.bidx = j, !.stctr = 0, !.store = txt],
         Tok("IDENTIFIER", txt))

ScanDigits(b, s) ==
  LET j == RunWhile(b, s.bidx, Digits)
      txt == Slice(b, s.bidx, j)
  IN Out([s EXCEPT !.bidx = j, !.stctr = 0, !.store = txt],
         Tok("INTEGER", txt))

\* ScanGroup without the check of the character after the opening brace.
ScanGroup_NoFirstCheck(b, s) ==
  LET j == RunWhile(b, s.bidx + 1, IdentChars)
      txt == Slice(b, s.bidx + 1, j)
  IN IF Ch(b, j) # RBRACE
     THEN Out([s EXCEPT !.bidx = j,
                        !.stctr = s.stctr + (j - (s.bidx + 1)),
                        !.store = txt, !.error = 1], <<>>)
     ELSE Out([s EXCEPT !.bidx = j + 1, !.stctr = 0, !.store = txt],
              Tok("GROUP", txt))

ScanGroup(b, s) ==
  LET c == Ch(b, s.bidx + 1)
      j == RunWhile(b, s.bidx + 1, IdentChars)
      txt == Slice(b, s.bidx + 1, j)
  IN IF ~is_valid_identifier(c)
     THEN Out([s EXCEPT !.bidx = s.bidx + 1, !.stctr = s.stctr + 1,
                        !.store = IF c = NUL THEN <<>> ELSE <<c>>,
                        !.error = 1], <<>>)
     ELSE IF Ch(b, j) # RBRACE
          THEN Out([s EXCEPT !.bidx = j,
                             !.stctr = s.stctr + (j - (s.bidx + 1)),
                             !.store = txt, !.error = 1], <<>>)
          ELSE Out([s EXCEPT !.bidx = j + 1, !.stctr = 0, !.store = txt],
                   Tok("GROUP", txt))

ScanWord(b, s) ==
  LET j == RunWhile(b, s.bidx, IdentChars)
      txt == Slice(b, s.bidx, j)
      t == [s EXCEPT !.bidx = j, !.stctr = 0, !.store = txt]
  IN {IF k.fault
      THEN Faulted(s)
      ELSE IF k.ret # 0
           THEN [scan |-> t, emit |-> Tok("KEYWORD", txt), fault |-> FALSE]
           ELSE [scan |-> [t EXCEPT !.error = 1], emit |-> <<>>,
                 fault |-> FALSE]
      : k \in is_valid_keyword(txt)}

\* The catch-all's loop stops at one of these only, not at the terminator.
Delimiter(c) == c \in {COMMENT, LBRACE, RBRACE, DQUOTE, VAR, NEWLINE, EQUAL}

\* With no delimiter before the terminator the loop stores the terminator
\* and reads on past the buffer: after g more bytes it meets a byte equal to
\* a delimiter, or it faults on unmapped memory.
ScanUnknown(b, s) ==
  LET stops == {j \in (s.bidx + 1)..(Len(b) - 1) : Delimiter(Ch(b, j))}
  IN IF stops # {}
     THEN LET j == CHOOSE j \in stops : \A k \in stops : j <= k
          IN Out([s EXCEPT !.bidx = j, !.stctr = s.stctr + (j - s.bidx),
                           !.store = Slice(b, s.bidx, j), !.error = 1],
                 <<>>)
     ELSE {[scan |-> [s EXCEPT !.bidx = Len(b) + 1 + g,
                               !.stctr = s.stctr + (Len(b) - s.bidx) + 1 + g,
                               !.store = Slice(b, s.bidx, Len(b)),
                               !.error = 1],
            emit |-> <<>>, fault |-> FALSE] : g \in 0..MaxGarbage}
          \cup {Faulted(s)}

\* The highest index of store an iteration wrote: the terminator's.
StoreTop(s) == IF s.stctr > Len(s.store) THEN s.stctr ELSE Len(s.store)

\* store[stctr++] = c and store[stctr] = '\0' check no bound: an iteration
\* that wrote store[STORE_SIZE] or beyond has written over the stack past
\* the array, and goes on as if nothing happened or faults.
Stored(s, outs) ==
  outs \cup {Faulted(s) : o \in {x \in outs : /\ ~x.fault
                                              /\ StoreTop(x.scan) >= STORE_SIZE}}

\* The body of the scanning loop, entered with buff[bidx] # '\0' and no
\* error: the outcomes of one iteration.
Iter(b, s) ==
  LET c == Ch(b, s.bidx)
  IN IF c = COMMENT THEN ScanComment(b, s)
     ELSE IF c = NEWLINE THEN ScanNewline(b, s)
     ELSE IF c = BANG THEN ScanBang(b, s)
     ELSE IF isspace(c) THEN Out(Skip(s, 1), <<>>)
     ELSE IF c = LPAREN THEN Out(Skip(s, 1), Tok("LPAREN", <<"(">>))
     ELSE IF c = RPAREN THEN Out(Skip(s, 1), Tok("RPAREN", <<")">>))
     ELSE IF c = LESSTHAN THEN ScanLessThan(b, s)
     ELSE IF c = GREATERTHAN THEN ScanGreaterThan(b, s)
     ELSE IF c = EQUAL THEN ScanEqual(b, s)
     ELSE IF c = PLUS THEN Out(Skip(s, 1), Tok("OPERATOR", <<"PLUS">>))
     ELSE IF c = MINUS THEN Out(Skip(s, 1), Tok("OPERATOR", <<"MINUS">>))
     ELSE IF c = ASTERISK
          THEN Out(Skip(s, 1), Tok("OPERATOR", <<"ASTERISK">>))
     ELSE IF c = FSLASH THEN Out(Skip(s, 1), Tok("OPERATOR", <<"FSLASH">>))
     ELSE IF c = DQUOTE THEN Stored(s, ScanString(b, s))
     ELSE IF c = VAR THEN Stored(s, ScanVar(b, s))
     ELSE IF isdigit(c) THEN Stored(s, ScanDigits(b, s))
     ELSE IF c = LBRACE THEN Stored(s, ScanGroup(b, s))
     ELSE IF isalpha(c) THEN Stored(s, ScanWord(b, s))
     ELSE Stored(s, ScanUnknown(b, s))

\* while (buff[bidx] != '\0' && !error)
LoopCond(b, s) == s.error = 0 /\ Ch(b, s.bidx) # NUL

\* The store after the tokens of e (none or one) were appended.
AddAll(m, e) ==
  IF e = <<>> THEN m ELSE TokenMgr_add_token(m, e[1].type, e[1].value)

NoScan == [bidx |-> 0, stctr |-> 0, store |-> <<>>, error |-> 0, lineno |-> 1]

\* The outcomes of the whole of build_tokens(b, m) from locals s on, each
\* [fault, rc, tokens]: the return code and the store's tokens, or a fault.
RECURSIVE build_tokens(_, _, _)
build_tokens(b, s, m) ==
  IF ~LoopCond(b, s)
  THEN {[fault |-> FALSE, rc |-> s.error, tokens |-> Tokens(m)]}
  ELSE UNION {IF o.fault
              THEN {[fault |-> TRUE, rc |-> 0, tokens |-> Tokens(m)]}
              ELSE build_tokens(b, o.scan, AddAll(m, o.emit))
              : o \in Iter(b, s)}

\* The characters the scanned buffers are made of: one of each class the
\* loop tells apart.
Alphabet ==
  {COMMENT, NEWLINE, BANG, " ", "\t", LPAREN, RPAREN, LESSTHAN, GREATERTHAN,
   EQUAL, PLUS, MINUS, ASTERISK, FSLASH, DQUOTE, VAR, "1", LBRACE, RBRACE,
   "i", "f", "_", "?"}

\* The characters of the lines of the read-eval loop.
RescanAlphabet == {"1", PLUS, "?", "i"}

Strings(A, n) == UNION {[1..k -> A] : k \in 0..n}

\* build_tokens is entered, on a store just created or just cleared: the
\* locals are initialised.
BuildStart ==
  /\ Running
  /\ op \in {"new", "clear"}
  /\ \E b \in Strings(RescanAlphabet, MaxRescanLen) : buff' = b
  /\ scan' = NoScan
  /\ pc' = "scan"
  /\ op' = "build" /\ ret' = NULL /\ rc' = 0
  /\ UNCHANGED <<tok_mgr, walk>>

\* One iteration of the scanning loop.
ScanStep ==
  /\ pc = "scan"
  /\ LoopCond(buff, scan)
  /\ \E o \in Iter(buff, scan) :
       /\ pc' = IF o.fault THEN "fault" ELSE "scan"
       /\ scan' = o.scan
       /\ tok_mgr' = AddAll(tok_mgr, o.emit)
       /\ walk' = IF o.emit = <<>> THEN walk ELSE NoWalk(FALSE)
  /\ UNCHANGED <<op, ret, rc, buff>>

\* The loop is left: if (error) printf(...); return error;
ScanReturn ==
  /\ pc = "scan"
  /\ ~LoopCond(buff, scan)
  /\ rc' = scan.error
  /\ pc' = "done"
  /\ UNCHANGED <<tok_mgr, op, ret, walk, buff, scan>>

Init ==
  /\ tok_mgr = TokenMgr_new
  /\ op = "new" /\ ret = NULL /\ rc = 0 /\ walk = NoWalk(FALSE)
  /\ pc = "idle" /\ buff = <<>> /\ scan = NoScan

Next ==
  \/ CallNew \/ CallAdd \/ CallNext \/ CallPrev \/ CallReset
  \/ CallClear \/ CallCurrent \/ CallFirst \/ CallLast

Spec == Init /\ [][Next]_vars

\* One call of build_tokens on a newly created store, for every buffer.
InitScan ==
  /\ tok_mgr = TokenMgr_new
  /\ op = "build" /\ ret = NULL /\ rc = 0 /\ walk = NoWalk(FALSE)
  /\ pc = "scan" /\ buff \in Strings(Alphabet, MaxLen) /\ scan = NoScan

NextScan == ScanStep \/ ScanReturn

SpecScan == InitScan /\ [][NextScan]_vars

\* The read-eval loop: scan a line, clear the store, scan the next line.
NextRescan == BuildStart \/ ScanStep \/ ScanReturn \/ CallClear

SpecRescan == Init /\ [][NextRescan]_vars

\* n times the character c.
Fill(c, n) == [k \in 1..n |-> c]

\* Buffers of one long lexical unit of each kind that is accumulated in
\* store: a string, a sigil identifier, an integer, a group, a bare word, an
\* unrecognized fragment.
LongBuffers ==
  UNION {{<<DQUOTE>> \o Fill("a", n) \o <<DQUOTE>>,
          <<VAR>> \o Fill("a", n),
          Fill("1", n),
          <<LBRACE>> \o Fill("a", n) \o <<RBRACE>>,
          Fill("a", n),
          Fill("?", n) \o <<NEWLINE>>} : n \in 1..(STORE_SIZE + MaxOver)}

\* One call of build_tokens on a newly created store, for every long buffer.
InitOverlong ==
  /\ tok_mgr = TokenMgr_new
  /\ op = "build" /\ ret = NULL /\ rc = 0 /\ walk = NoWalk(FALSE)
  /\ pc = "scan" /\ buff \in LongBuffers /\ scan = NoScan

SpecOverlong == InitOverlong /\ [][NextScan]_vars

\* A store's life: scans and appends, clears between them, and the final
\* TokenMgr_free.
NextFree ==
  \/ BuildStart \/ ScanStep \/ ScanReturn
  \/ CallAdd \/ CallClear \/ CallFree

SpecFree == Init /\ [][NextFree]_vars

\* The characters of the strings is_valid_keyword is called with.
KeywordAlphabet == {"i", "f", "I", "e"}

\* Its arguments: short strings (the empty one among them), and the entries
\* of the keyword table, the null pointer among them.
KeywordInputs ==
  Strings(KeywordAlphabet, MaxWordLen)
    \cup {R_Keywords[x] : x \in 1..KWORDS_SIZE}

\* is_valid_keyword(buff) runs and returns, or faults.
CallIsValidKeyword ==
  /\ pc = "call"
  /\ \E k \in is_valid_keyword(buff) :
       /\ pc' = IF k.fault THEN "fault" ELSE "done"
       /\ rc' = k.ret
  /\ UNCHANGED <<tok_mgr, op, ret, walk, buff, scan>>

\* One call of is_valid_keyword, for every argument.
InitKeyword ==
  /\ tok_mgr = TokenMgr_new
  /\ op = "keyword" /\ ret = NULL /\ rc = 0 /\ walk = NoWalk(FALSE)
  /\ pc = "call" /\ buff \in KeywordInputs /\ scan = NoScan

NextKeyword == CallIsValidKeyword

SpecKeyword == InitKeyword /\ [][NextKeyword]_vars

\* ------------------------------------------------ claims on the store
Cursor == tok_mgr.curr_tok

AtLast == tok_mgr.tok_ctr >= 1 /\ Cursor = <<tok_mgr.tok_ctr - 1>>

AtFirst == tok_mgr.tok_ctr >= 1 /\ Cursor = <<0>>

\* C1: from a freshly reset cursor on a store of N tokens (N >= 0), the k-th
\* successive TokenMgr_next_token returns the token at position k-1 for
\* k <= N, and the (N+1)-th returns NULL.
C1_NextTraversal ==
  (op = "next" /\ walk.dir = "next") =>
     IF walk.n <= tok_mgr.tok_ctr
     THEN InArr(walk.n - 1) /\ ret = tok_mgr.toks[walk.n - 1] /\ IsToken(ret)
     ELSE ret = NULL

\* C2: from a freshly reset cursor on a store of N tokens (N >= 0), the k-th
\* successive TokenMgr_prev_token returns the token at position N-k for
\* k <= N, and the (N+1)-th returns NULL.
C2_PrevTraversal ==
  (op = "prev" /\ walk.dir = "prev") =>
     IF walk.n <= tok_mgr.tok_ctr
     THEN /\ InArr(tok_mgr.tok_ctr - walk.n)
          /\ ret = tok_mgr.toks[tok_mgr.tok_ctr - walk.n]
          /\ IsToken(ret)
     ELSE ret = NULL

\* C3: after any sequence of store calls the cursor is unset or refers to a
\* position i with 0 <= i < tok_ctr.
C3_CursorInRange ==
  Cursor = NULLCUR \/ (0 <= Cursor[1] /\ Cursor[1] < tok_mgr.tok_ctr)

C5_StopsAtEnds ==
  [][/\ (AtLast /\ op' = "next") => (ret' = NULL /\ tok_mgr' = tok_mgr)
     /\ (AtFirst /\ op' = "prev") => (ret' = NULL /\ tok_mgr' = tok_mgr)]_vars

\* C5's case: a TokenMgr_next_token call made with the cursor at the last of
\* at least two tokens has returned NULL.
C5_Witness ==
  /\ AtLast /\ tok_mgr.tok_ctr >= 2
  /\ op = "next" /\ ret = NULL
  /\ walk.dir = "next" /\ walk.n = tok_mgr.tok_ctr + 1

\* C6: after TokenMgr_clear_tokens and until the next append, tok_ctr is 0,
\* the clear left the cursor unset, and get_first_token, get_last_token,
\* TokenMgr_next_token and TokenMgr_prev_token all return NULL.
C6_ClearEmpties ==
  walk.cleared =>
     /\ tok_mgr.tok_ctr = 0
     /\ (op = "clear" => Cursor = NULLCUR)
     /\ (op \in {"first", "last", "next", "prev"} => ret = NULL)

\* ---------------------------------------------- claims on build_tokens
ScanTokens == Tokens(tok_mgr)

\* The scanning loop is about to run its body on buff[bidx].
AtLoopTop == pc = "scan" /\ LoopCond(buff, scan)

\* C7: build_tokens(B, S) on a store S that was scanned into and then
\* cleared ends as build_tokens(B, fresh) on a newly created store can end:
\* the same return code and the same token sequence.
C7_RescanAsFresh ==
  (op = "build" /\ pc \in {"done", "fault"}) =>
     [fault |-> pc = "fault", rc |-> rc, tokens |-> ScanTokens]
        \in build_tokens(buff, NoScan, TokenMgr_new)

\* C7's case: a scan has returned on a store that still holds, past its
\* last token, a token of an earlier and longer scan.
C7_Witness ==
  /\ op = "build" /\ pc = "done" /\ rc = 0
  /\ tok_mgr.tok_ctr = 1
  /\ tok_mgr.toks[0].type = "INTEGER"
  /\ tok_mgr.toks[1].type = "OPERATOR"

\* C8: build_tokens is fail-fast: it never ends other than by returning, it
\* returns the error flag (0 when no construct was rejected), and once the
\* flag is set no character is classified and no token is appended.
C8_FailFast ==
  [][/\ pc' # "fault"
     /\ pc' = "done" => rc' = scan'.error
     /\ (pc = "scan" /\ scan.error # 0) =>
           (scan' = scan /\ tok_mgr' = tok_mgr /\ pc' = "done" /\ rc' # 0)
    ]_vars

\* The mnemonic of the two-character operator c n, "" when c n is none.
Digraph(c, n) ==
  IF c = BANG /\ n = EQUAL THEN "NOTEQUALTO"
  ELSE IF c = LESSTHAN /\ n = EQUAL THEN "LTEQTO"
  ELSE IF c = GREATERTHAN /\ n = EQUAL THEN "GTEQTO"
  ELSE IF c = GREATERTHAN /\ n = LESSTHAN THEN "BETWEEN"
  ELSE IF c = EQUAL /\ n = EQUAL THEN "EQUALTO"
  ELSE ""

Monograph(c) ==
  IF c = BANG THEN "NOT"
  ELSE IF c = LESSTHAN THEN "LESSTHAN"
  ELSE IF c = GREATERTHAN THEN "GREATERTHAN"
  ELSE "EQUAL"

\* C9: at a scan position holding !, <, > or =, build_tokens appends exactly
\* one OPERATOR token: the two-character operator when the next character
\* completes !=, <=, >=, >< or ==, with the offset advanced by two; else the
\* one-character operator, with the offset advanced by one.
C9_LongestMatch ==
  [][(AtLoopTop /\ Ch(buff, scan.bidx) \in {BANG, LESSTHAN, GREATERTHAN, EQUAL})
       => LET c == Ch(buff, scan.bidx)
              two == Digraph(c, Ch(buff, scan.bidx + 1))
          IN /\ pc' = "scan" /\ scan'.error = 0
             /\ Tokens(tok_mgr') =
                  Append(ScanTokens,
                         [type |-> "OPERATOR",
                          value |-> <<IF two # "" THEN two ELSE Monograph(c)>>])
             /\ scan'.bidx = scan.bidx + (IF two # "" THEN 2 ELSE 1)
    ]_vars

\* C9's case: "<>=" was scanned as LESSTHAN followed by GTEQTO.
C9_Witness ==
  /\ buff = <<LESSTHAN, GREATERTHAN, EQUAL>>
  /\ scan.bidx = 3
  /\ ScanTokens = <<[type |-> "OPERATOR", value |-> <<"LESSTHAN">>],
                    [type |-> "OPERATOR", value |-> <<"GTEQTO">>]>>

\* The line of buff[i]: 1 plus the newlines before it.
LineOf(b, i) == 1 + Cardinality({k \in 0..(i - 1) : Ch(b, k) = NEWLINE})

\* C10: at an opening quote, when a closing quote comes before any newline
\* and before the end of the buffer, exactly one STRING token is appended, its
\* value the characters between the quotes, and the scan resumes after the
\* closing quote; otherwise no token is appended and the error is raised with
\* the line counter at the line of the opening quote, and returned.
C10_StringLiteral ==
  [][/\ (AtLoopTop /\ Ch(buff, scan.bidx) = DQUOTE)
          => LET ends == {j \in (scan.bidx + 1)..Len(buff) :
                            Ch(buff, j) \in {DQUOTE, NEWLINE, NUL}}
                 q == CHOOSE j \in ends : \A k \in ends : j <= k
             IN /\ pc' = "scan"
                /\ IF Ch(buff, q) = DQUOTE
                   THEN /\ Tokens(tok_mgr') =
                             Append(ScanTokens,
                                    [type |-> "STRING",
                                     value |-> Slice(buff, scan.bidx + 1, q)])
                        /\ scan'.bidx = q + 1
                        /\ scan'.error = 0
                   ELSE /\ tok_mgr' = tok_mgr
                        /\ scan'.error = 1
                        /\ scan'.lineno = LineOf(buff, scan.bidx)
     /\ (pc = "scan" /\ scan.error = 1)
          => (pc' = "done" /\ rc' = 1 /\ scan' = scan /\ tok_mgr' = tok_mgr)
    ]_vars

\* C10's case: the empty string "" was appended and the quote after it,
\* never closed, made build_tokens return the error.
C10_Witness ==
  /\ buff = <<DQUOTE, DQUOTE, DQUOTE>>
  /\ pc = "done" /\ rc = 1
  /\ ScanTokens = <<[type |-> "STRING", value |-> <<>>]>>

\* The last token of the store, when a step has appended one.
Appended(m, n) ==
  IF n.tok_ctr = m.tok_ctr + 1 /\ InArr(m.tok_ctr)
  THEN {Tokens(n)[n.tok_ctr]}
  ELSE {}

\* C11: at an opening brace, exactly one GROUP token holding the inner text
\* is appended, and the scan resumes after the closing brace, if and only if
\* the brace is followed by one or more identifier characters and then by a
\* closing brace; in every other case nothing is appended and the error is
\* raised and returned.  No other step appends a GROUP token.
C11_GroupLiteral ==
  [][/\ (AtLoopTop /\ Ch(buff, scan.bidx) = LBRACE)
          => LET ends == {j \in (scan.bidx + 1)..Len(buff) :
                            ~is_valid_identifier(Ch(buff, j))}
                 q == CHOOSE j \in ends : \A k \in ends : j <= k
             IN /\ pc' = "scan"
                /\ IF q > scan.bidx + 1 /\ Ch(buff, q) = RBRACE
                   THEN /\ Tokens(tok_mgr') =
                             Append(ScanTokens,
                                    [type |-> "GROUP",
                                     value |-> Slice(buff, scan.bidx + 1, q)])
                        /\ scan'.bidx = q + 1
                        /\ scan'.error = 0
                   ELSE /\ tok_mgr' = tok_mgr
                        /\ scan'.error = 1
     /\ (AtLoopTop /\ Ch(buff, scan.bidx) # LBRACE)
          => \A t \in Appended(tok_mgr, tok_mgr') : t.type # "GROUP"
     /\ (pc = "scan" /\ scan.error = 1)
          => (pc' = "done" /\ rc' = 1 /\ scan' = scan /\ tok_mgr' = tok_mgr)
    ]_vars

\* C11's case: "{i}" was scanned to the end as the one token GROUP "i".
C11_Witness ==
  /\ buff = <<LBRACE, "i", RBRACE>>
  /\ pc = "done" /\ rc = 0
  /\ ScanTokens = <<[type |-> "GROUP", value |-> <<"i">>]>>

\* The keywords of the language.
Keywords ==
  {<<"p", "r", "i", "n", "t">>, <<"i", "f">>, <<"e", "l", "s", "e">>}

\* C12: at a letter, build_tokens takes the maximal run of identifier
\* characters; when the run is a keyword it appends one KEYWORD token with
\* that text and resumes after the run; otherwise it appends nothing and
\* raises the error, which the call returns.  No other step appends a
\* KEYWORD token.
C12_BareWord ==
  [][/\ (AtLoopTop /\ isalpha(Ch(buff, scan.bidx)))
          => LET ends == {j \in (scan.bidx + 1)..Len(buff) :
                            ~is_valid_identifier(Ch(buff, j))}
                 q == CHOOSE j \in ends : \A k \in ends : j <= k
                 word == Slice(buff, scan.bidx, q)
             IN /\ pc' = "scan"
                /\ IF word \in Keywords
                   THEN /\ Tokens(tok_mgr') =
                             Append(ScanTokens,
                                    [type |-> "KEYWORD", value |-> word])
                        /\ scan'.bidx = q
                        /\ scan'.error = 0
                   ELSE /\ tok_mgr' = tok_mgr
                        /\ scan'.error = 1
     /\ (AtLoopTop /\ ~isalpha(Ch(buff, scan.bidx)))
          => \A t \in Appended(tok_mgr, tok_mgr') : t.type # "KEYWORD"
     /\ (pc = "scan" /\ scan.error = 1)
          => (pc' = "done" /\ rc' = 1)
    ]_vars

\* C13: is_valid_keyword(str) returns 1 exactly when str is print, if or
\* else, and 0 for every other argument, the empty string and the null
\* pointer included; its scan only compares against defined entries of the
\* keyword table, so the call always returns.
C13_KeywordExact ==
  (op = "keyword" /\ pc # "call") =>
     /\ pc = "done"
     /\ rc = IF buff \in Keywords THEN 1 ELSE 0

\* C14: the line counter starts at 1; whenever a token is appended or the
\* error is raised it is 1 plus the number of newlines before the first
\* character of that token or construct; only an iteration that starts at a
\* newline changes it, by one, and the newline that ends a comment is such an
\* iteration; the counter is the same when the error is reported.
C14_LineTracking ==
  [][/\ AtLoopTop
          => /\ scan.lineno = LineOf(buff, scan.bidx)
             /\ scan'.lineno =
                  scan.lineno +
                    (IF pc' = "scan" /\ Ch(buff, scan.bidx) = NEWLINE
                     THEN 1 ELSE 0)
             /\ (tok_mgr' # tok_mgr \/ scan'.error # 0)
                  => scan'.lineno = LineOf(buff, scan.bidx)
     /\ (pc = "scan" /\ ~LoopCond(buff, scan)) => scan'.lineno = scan.lineno
    ]_vars

\* C14's case: in "#", newline, "1" the integer was appended with the line
\* counter at 2.
C14_Witness ==
  /\ buff = <<COMMENT, NEWLINE, "1">>
  /\ pc = "done" /\ rc = 0
  /\ scan.lineno = 2
  /\ ScanTokens = <<[type |-> "INTEGER", value |-> <<"1">>]>>

\* C15: the scratch buffer is never written beyond its capacity: the
\* accumulation index and the index of the terminator stay below the size of
\* store in every state of the scan, so that a lexical unit too long for it
\* is rejected before anything is written past it.
C15_StoreBound ==
  /\ scan.stctr < STORE_SIZE
  /\ Len(scan.store) < STORE_SIZE

\* C16: every TokenMgr_add_token either stores the new token inside the
\* backing array, as the last token, raising tok_ctr by one and leaving the
\* earlier tokens and the cursor as they were, or fails with a nonzero
\* status and changes nothing; it never drops or misplaces a token.
C16_AddWithinCapacity ==
  [][op' = "add" =>
       \/ /\ tok_mgr'.tok_ctr = tok_mgr.tok_ctr + 1
          /\ InArr(tok_mgr.tok_ctr)
          /\ IsToken(tok_mgr'.toks[tok_mgr.tok_ctr])
          /\ [type |-> tok_mgr'.toks[tok_mgr.tok_ctr].type,
              value |-> tok_mgr'.toks[tok_mgr.tok_ctr].value] \in AddKinds
          /\ \A i \in 0..(tok_mgr.tok_ctr - 1) :
               tok_mgr'.toks[i] = tok_mgr.toks[i]
          /\ tok_mgr'.curr_tok = tok_mgr.curr_tok
       \/ /\ rc' # 0
          /\ tok_mgr' = tok_mgr
    ]_vars

\* C17: when TokenMgr_free has returned, every token an append allocated has
\* been released (those appended before a TokenMgr_clear_tokens too), and
\* the cursor refers to none.
C17_NoLeak ==
  pc = "freed" =>
     /\ \A i \in 0..(TOKS_CAP - 1) : ~IsToken(tok_mgr.toks[i])
     /\ Cursor = NULLCUR

\* C18: build_tokens terminates: every iteration of the scanning loop
\* completes and either strictly increases the offset or sets the error
\* flag, and the loop is left, and the call returns, with the offset at the
\* terminator and no error or with the error flag set.
C18_Terminates ==
  [][/\ AtLoopTop
          => /\ pc' = "scan"
             /\ (scan'.bidx > scan.bidx \/ scan'.error # 0)
     /\ (pc = "scan" /\ ~LoopCond(buff, scan))
          => /\ pc' = "done"
             /\ \/ scan.error = 0 /\ scan.bidx = Len(buff)
                \/ scan.error # 0
    ]_vars

\* C19: the scan offset never passes the buffer's terminator: in every state
\* of build_tokens 0 <= bidx <= length of the buffer, so that nothing behind
\* the terminator is read; the catch-all branch stops at the end of the
\* buffer when no delimiter follows.
C19_OffsetInBuffer ==
  0 <= scan.bidx /\ scan.bidx <= Len(buff)

\* C20: an iteration that starts at a comment-start character appends no
\* token and raises no error whatever follows on the line; it leaves the
\* offset at the next newline, or at the end of the buffer, and the line
\* counter as it was; and the rest of the scan can end exactly as the scan of
\* the buffer without the comment's text can.
C20_Comment ==
  [][(AtLoopTop /\ Ch(buff, scan.bidx) = COMMENT)
       => LET ends == {j \in (scan.bidx + 1)..Len(buff) :
                         Ch(buff, j) \in {NEWLINE, NUL}}
              q == CHOOSE j \in ends : \A k \in ends : j <= k
              cut == Slice(buff, 0, scan.bidx) \o Slice(buff, q, Len(buff))
          IN /\ pc' = "scan"
             /\ tok_mgr' = tok_mgr
             /\ scan'.error = 0
             /\ scan'.bidx = q
             /\ scan'.lineno = scan.lineno
             /\ build_tokens(buff, scan', tok_mgr') =
                  build_tokens(cut, scan, tok_mgr)
    ]_vars

\* C20's case: a comment holding a quote that is never closed, ended by a
\* newline, was scanned without a token and without an error.
C20_Witness ==
  /\ buff = <<COMMENT, DQUOTE, NEWLINE>>
  /\ pc = "done" /\ rc = 0
  /\ scan.bidx = 3 /\ scan.lineno = 2
  /\ ScanTokens = <<>>

\* C21: at a sigil, build_tokens appends exactly one IDENTIFIER token whose
\* value is the maximal run of identifier characters after the sigil, and
\* resumes after the run, without an error and without a KEYWORD token even
\* when the run spells a keyword; a KEYWORD token is only appended by an
\* iteration that starts at a letter no sigil precedes.
C21_SigilIdentifier ==
  [][/\ (AtLoopTop /\ Ch(buff, scan.bidx) = VAR)
          => LET ends == {j \in (scan.bidx + 1)..Len(buff) :
                            ~is_valid_identifier(Ch(buff, j))}
                 q == CHOOSE j \in ends : \A k \in ends : j <= k
             IN /\ pc' = "scan"
                /\ Tokens(tok_mgr') =
                     Append(ScanTokens,
                            [type |-> "IDENTIFIER",
                             value |-> Slice(buff, scan.bidx + 1, q)])
                /\ scan'.bidx = q
                /\ scan'.error = 0
     /\ AtLoopTop
          => \A t \in Appended(tok_mgr, tok_mgr') :
                t.type = "KEYWORD"
                  => /\ isalpha(Ch(buff, scan.bidx))
                     /\ (scan.bidx = 0 \/ Ch(buff, scan.bidx - 1) # VAR)
    ]_vars

\* C21's case: "$if" was scanned to the end as the one token IDENTIFIER "if".
C21_Witness ==
  /\ buff = <<VAR, "i", "f">>
  /\ pc = "done" /\ rc = 0
  /\ ScanTokens = <<[type |-> "IDENTIFIER", value |-> <<"i", "f">>]>>

====
